---- MODULE Spec2Model ----
(***************************************************************************)
(* Catalog ingestion (spreadsheet -> normalized SQLite store), the         *)
(* denormalized read view and the filter/search evaluation of the three    *)
(* variants of the book archive application:                               *)
(*   "web"     - src/app_one_tab_pro.py   (Streamlit)                       *)
(*   "desktop" - src/kaveh_books1.py      (PySide6, table only)             *)
(*   "gallery" - src/build_installer.py   (PySide6, table + gallery)        *)
(*                                                                         *)
(* Text is modelled as a sequence of one-character strings, so that        *)
(* trimming, case folding and pattern matching are computed, not assumed.  *)
(* Two multi-character tokens stand for fixed literals of the code that no *)
(* input of the model can spell: 'Unknown' and the "all" sentinel.         *)
(***************************************************************************)
EXTENDS Integers, Sequences, FiniteSets, TLC

VARIABLES
    variant,      \* which of the three programs runs
    store,        \* the SQLite database file: tables as row sequences
    imports,      \* number of rebuilds attempted so far
    last,         \* the last rebuild attempt: its sheet, outcome and error
    df_full,      \* the in-memory snapshot (_df_full / session_state["df"])
    loadCache,    \* lru_cache of load_db_to_df (gallery): db path -> data frame
    opts,         \* the entries of the four filter combo boxes / select boxes
    sel,          \* current text of the four filter combo boxes / select boxes
    q,            \* text of the search box
    shown,        \* rows handed to the table (model.set_dataframe / st.dataframe)
    count_lbl,    \* the number shown by the result-count label / caption
    is_filtering, \* gallery: _is_filtering, a filter callback is scheduled
    msg,          \* the last message box / st.error / status outcome
    dimension,    \* one dimension table as a caller of get_id sees it
    pics,         \* gallery: the picture folder, BOOK_IMAGES_CACHE, the last search
    gallery_view, \* gallery: GalleryView, its grid of cards and pending timers
    image_cache,  \* gallery: ImageCache, thumbnails and lru_queue, and the calls made
    sessions,     \* web: where the rebuild handler of each browser session stands
    search,       \* gallery: _filter_timer, pending filter callbacks, _current_view
    db_path,      \* desktop, gallery: _db_path, the database file the window is on
    viewer        \* gallery: the ImageViewerDialog on screen and its pending loads

\* The parts of the state outside the import, the read view and the filters.
aux == <<dimension, pics, gallery_view, image_cache, sessions, search, db_path, viewer>>

vars == <<variant, store, imports, last, df_full, loadCache, opts, sel, q, shown,
          count_lbl, is_filtering, msg, aux>>

Variants == {"web", "desktop", "gallery"}

-----------------------------------------------------------------------------
(* Bounds of the model.                                                    *)

MaxRows == 2        \* rows of an imported sheet
MaxCalls == 3       \* calls of get_id on one table
MaxFinds == 2       \* calls of find_book_images_fast
MaxDisplays == 2    \* calls of GalleryView.set_books_data
max_cache_size == 2 \* capacity of ImageCache (500 in the program)
MaxTimers == 2      \* single-shot timers of one kind pending at once
MaxImports == 2     \* rebuilds in one behaviour

-----------------------------------------------------------------------------
(* Text.                                                                   *)

NA == <<"NA">>                  \* a missing value: NaN / pd.NA / None / SQL NULL
Unknown == <<"Unknown">>        \* the literal 'Unknown'
NAText == <<"<", "N", "A", ">">>   \* str(pd.NA), the text '<NA>'
ALL == <<"(all)">>              \* the sentinel entry of every filter
Empty == <<>>                   \* the empty string ''
NanText == <<"n", "a", "n">>    \* the string 'nan'

\* Code points of the characters used, for Python's string ordering.
CharCode(c) ==
    CASE c = " " -> 32
      [] c = "(" -> 40
      [] c = "-" -> 45
      [] c = "." -> 46
      [] c = "/" -> 47
      [] c = "0" -> 48
      [] c = "1" -> 49
      [] c = "2" -> 50
      [] c = "3" -> 51
      [] c = "4" -> 52
      [] c = "5" -> 53
      [] c = "6" -> 54
      [] c = "7" -> 55
      [] c = "8" -> 56
      [] c = "9" -> 57
      [] c = "<" -> 60
      [] c = ">" -> 62
      [] c = "A" -> 65
      [] c = "B" -> 66
      [] c = "N" -> 78
      [] c = "Unknown" -> 85
      [] c = "a" -> 97
      [] c = "b" -> 98
      [] c = "d" -> 100
      [] c = "e" -> 101
      [] c = "g" -> 103
      [] c = "j" -> 106
      [] c = "m" -> 109
      [] c = "n" -> 110
      [] c = "p" -> 112
      [] c = "s" -> 115
      [] c = "t" -> 116
      [] c = "x" -> 120
      [] OTHER -> 200

\* str.lower() on one character.
LowerChar(c) ==
    CASE c = "A" -> "a"
      [] c = "B" -> "b"
      [] c = "N" -> "n"
      [] OTHER -> c

IsSpace(c) == c = " "

RECURSIVE LStrip(_)
LStrip(s) ==
    IF s = <<>> THEN <<>>
    ELSE IF IsSpace(Head(s)) THEN LStrip(Tail(s)) ELSE s

RECURSIVE RStrip(_)
RStrip(s) ==
    IF s = <<>> THEN <<>>
    ELSE IF IsSpace(s[Len(s)]) THEN RStrip(SubSeq(s, 1, Len(s) - 1)) ELSE s

\* str.strip(): no leading and no trailing white space.
Strip(s) == RStrip(LStrip(s))

\* Python's < on strings: lexicographic by code point.
RECURSIVE StrLess(_, _)
StrLess(a, b) ==
    IF b = <<>> THEN FALSE
    ELSE IF a = <<>> THEN TRUE
    ELSE IF CharCode(Head(a)) # CharCode(Head(b))
         THEN CharCode(Head(a)) < CharCode(Head(b))
         ELSE StrLess(Tail(a), Tail(b))

\* sorted(...) of a collection of distinct strings.
RECURSIVE Sorted(_)
Sorted(S) ==
    IF S = {} THEN <<>>
    ELSE LET m == CHOOSE x \in S : \A y \in S \ {x} : StrLess(x, y)
         IN  <<m>> \o Sorted(S \ {m})

\* Series.unique() after dropna(): the distinct present values, by first occurrence.
RECURSIVE Unique(_)
Unique(s) ==
    IF s = <<>> THEN <<>>
    ELSE LET init == Unique(SubSeq(s, 1, Len(s) - 1))
             x == s[Len(s)]
         IN  IF x = NA \/ \E i \in 1..Len(init) : init[i] = x
             THEN init ELSE Append(init, x)

Range(s) == {s[i] : i \in 1..Len(s)}

-----------------------------------------------------------------------------
(* The spreadsheet.                                                        *)

\* A cell of the book number column: a number (kept in tenths, so that 15 is
\* 1.5), an empty cell, or text that is no number.
NumCell(t) == [k |-> "num", v |-> t]
NaCell == [k |-> "na", v |-> 0]
TextCell == [k |-> "text", v |-> 0]

BaseRow ==
    [book_id |-> NumCell(10), title |-> <<"t">>, brand |-> <<"a">>,
     model |-> <<"m">>, machine_type |-> <<"s">>, language |-> <<"e">>,
     edition_year |-> <<"9">>, location |-> NA]

BookIdCells == {NumCell(20), NumCell(15), NaCell}
TitleCells == {NA}
BrandCells == {<<" ", "b", " ">>, <<" ">>, <<" ", "n", "a", "n">>}
ModelCells == {NA}
MachineTypeCells == {NA}
LanguageCells == {<<" ">>, NA}

\* The rows a sheet is made of: the base row, and the base row with one cell
\* changed.
SheetRows ==
    {BaseRow}
    \cup {[BaseRow EXCEPT !.book_id = c] : c \in BookIdCells}
    \cup {[BaseRow EXCEPT !.title = c] : c \in TitleCells}
    \cup {[BaseRow EXCEPT !.brand = c] : c \in BrandCells}
    \cup {[BaseRow EXCEPT !.model = c] : c \in ModelCells}
    \cup {[BaseRow EXCEPT !.machine_type = c] : c \in MachineTypeCells}
    \cup {[BaseRow EXCEPT !.language = c] : c \in LanguageCells}

SeqsUpTo(S, n) == UNION {[1..k -> S] : k \in 0..n}

Sheets == SeqsUpTo(SheetRows, MaxRows)

\* pd.read_excel: a cell whose text is one of pandas' default NA markers
\* ('' and 'nan' among the texts used here) is read as missing.
ReadExcel(cell) == IF cell \in {Empty, NanText} THEN NA ELSE cell

\* web, desktop: astype(str).str.strip(), then replace({'nan': pd.NA}).
\* astype(str) turns a missing value into the text 'nan'.
CleanStr(cell) ==
    LET s == IF cell = NA THEN NanText ELSE cell
        t == Strip(s)
    IN  IF t = NanText THEN NA ELSE t

\* gallery: astype('string').str.strip(); a missing value stays missing.
CleanString(cell) == IF cell = NA THEN NA ELSE Strip(cell)

CleanCell(v, cell) ==
    IF v = "gallery" THEN CleanString(ReadExcel(cell)) ELSE CleanStr(ReadExcel(cell))

\* df['language'].fillna('Unknown')
FillNa(x) == IF x = NA THEN Unknown ELSE x

\* load_excel_to_df on one row.
LoadRow(v, r) ==
    [book_id |-> r.book_id,
     title |-> CleanCell(v, r.title),
     brand |-> CleanCell(v, r.brand),
     model |-> CleanCell(v, r.model),
     machine_type |-> CleanCell(v, r.machine_type),
     language |-> FillNa(CleanCell(v, r.language)),
     edition_year |-> ReadExcel(r.edition_year),
     location |-> ReadExcel(r.location)]

load_excel_to_df(v, sheet) == [i \in 1..Len(sheet) |-> LoadRow(v, sheet[i])]

Column(df, col) == [i \in 1..Len(df) |-> df[i][col]]

\* COLUMN_MAP: the eight columns a sheet is expected to have, and the five of
\* them load_excel_to_df indexes (df[col]) while cleaning.
Columns ==
    {"book_id", "brand", "model", "machine_type", "title", "language",
     "edition_year", "location"}
CleanedColumns == {"brand", "model", "machine_type", "title", "language"}

\* A workbook as the rebuild receives it: unreadable, without the expected
\* sheet, or with the sheet, which may lack one of the mapped columns.
Workbook(defect, missing, rows) == [defect |-> defect, missing |-> missing, rows |-> rows]
GoodWorkbook(sheet) == Workbook("none", "none", sheet)

\* load_excel_to_df raises: pd.read_excel on a file that is no workbook or has
\* no sheet SHEET_NAME, df[col] (KeyError) on a column that is not there.
LoadRaises(wb) == wb.defect # "none" \/ wb.missing \in CleanedColumns

-----------------------------------------------------------------------------
(* The store: one SQLite file with four dimension tables, books and meta.  *)
(* A dimension table is the sequence of its names; a row's id is its       *)
(* position (INTEGER PRIMARY KEY of a freshly created table counts from 1   *)
(* and no dimension row is ever deleted).                                  *)

NoId == 0                       \* a NULL foreign key / no row found

Dims == {"brand", "machine_type", "model", "language"}

\* The state of a database file that does not exist yet.
NoStore ==
    [exists |-> FALSE, brand |-> <<>>, machine_type |-> <<>>, model |-> <<>>,
     language |-> <<>>, books |-> <<>>, meta |-> <<>>]

\* A variant of create_schema that leaves a row in brands.
create_schema_keeping_brands ==
    [exists |-> TRUE, brand |-> <<<<"z">>>>, machine_type |-> <<>>, model |-> <<>>,
     language |-> <<>>, books |-> <<>>, meta |-> <<>>]

\* create_schema(conn, drop=True): all six tables dropped and created empty.
create_schema ==
    [exists |-> TRUE, brand |-> <<>>, machine_type |-> <<>>, model |-> <<>>,
     language |-> <<>>, books |-> <<>>, meta |-> <<>>]

\* A variant of InsertOrIgnore that inserts without looking.
InsertAlways(tbl, name) == Append(tbl, name)

\* INSERT OR IGNORE INTO <table> (name) VALUES (?)  -- name is UNIQUE
InsertOrIgnore(tbl, name) ==
    IF \E i \in 1..Len(tbl) : tbl[i] = name THEN tbl ELSE Append(tbl, name)

\* SELECT id FROM <table> WHERE name=?  -- row[0] if row else None
SelectId(tbl, name) ==
    IF \E i \in 1..Len(tbl) : tbl[i] = name
    THEN CHOOSE i \in 1..Len(tbl) : tbl[i] = name /\ \A j \in 1..(i - 1) : tbl[j] # name
    ELSE NoId

\* get_id: the names for which it returns None without touching the table.
\* web tests "name is None"; desktop tests "not name", which is also true of ''.
SkipsName(v, name) ==
    IF v = "web" THEN name = NA ELSE name = NA \/ name = Empty

\* get_id(cur, table, name): the table afterwards and the id returned.
get_id(v, tbl, name) ==
    IF SkipsName(v, name) THEN [tbl |-> tbl, id |-> NoId]
    ELSE LET t == InsertOrIgnore(tbl, name)
         IN  [tbl |-> t, id |-> SelectId(t, name)]

\* get_id_cached(cur, table, name), gallery: functools.lru_cache keeps the
\* result of every call by its arguments and answers a repeated call from
\* there, without running the body.  cache is the set of <<name, id>> kept for
\* one cursor and table.
get_id_cached(cache, tbl, name) ==
    IF \E p \in cache : p[1] = name
    THEN [tbl |-> tbl, cache |-> cache,
          id |-> (CHOOSE p \in cache : p[1] = name)[2]]
    ELSE LET r == IF name = NA \/ name = Empty
                  THEN [tbl |-> tbl, id |-> NoId]
                  ELSE IF \E i \in 1..Len(tbl) : tbl[i] = name
                       THEN [tbl |-> tbl, id |-> SelectId(tbl, name)]
                       ELSE [tbl |-> InsertOrIgnore(tbl, name),
                             id |-> SelectId(InsertOrIgnore(tbl, name), name)]
         IN  [tbl |-> r.tbl, cache |-> cache \cup {<<name, r.id>>}, id |-> r.id]

\* for v in sorted(df[col].dropna().unique()): get_id(cur, t, v)
RECURSIVE GetIdAll(_, _, _)
GetIdAll(v, tbl, names) ==
    IF names = <<>> THEN tbl
    ELSE GetIdAll(v, get_id(v, tbl, Head(names)).tbl, Tail(names))

\* cur.executemany("INSERT OR IGNORE INTO <table> (name) VALUES (?)", ...)
RECURSIVE InsertAll(_, _)
InsertAll(tbl, names) ==
    IF names = <<>> THEN tbl
    ELSE InsertAll(InsertOrIgnore(tbl, Head(names)), Tail(names))

\* The dimension table after the rows for one column of the data frame are
\* written into it.
PopulateDimension(v, tbl, df, col) ==
    IF v = "gallery"
    THEN InsertAll(tbl, Unique(Column(df, col)))
    ELSE GetIdAll(v, tbl, Sorted(Range(Unique(Column(df, col)))))

\* The first phase of populate_replace: schema reset and the four dimensions.
PopulateDimensions(v, df) ==
    [create_schema EXCEPT
        !.brand = PopulateDimension(v, @, df, "brand"),
        !.machine_type = PopulateDimension(v, @, df, "machine_type"),
        !.model = PopulateDimension(v, @, df, "model"),
        !.language = PopulateDimension(v, @, df, "language")]

\* A variant of IntRaises that lets text through.
IntRaisesOnEmpty(cell) == cell.k = "na"

\* int(r['book_id']): truncation of a number; raises on NaN and on text that
\* is no number.
IntRaises(cell) == cell.k # "num"
IntOf(cell) == cell.v \div 10

\* None if pd.isna(x) else str(x)
StrOrNone(x) == x

\* A variant of DimensionId that is one row off.
DimensionIdOffByOne(v, tbl, name) ==
    IF name = NA THEN NoId ELSE SelectId(tbl, name) + 1

\* The id a book row gets for one dimension.
\* web, desktop: get_id(...) if pd.notna(name) else None
\* gallery: ids.get(str(name)) if pd.notna(name) else None
DimensionId(v, tbl, name) ==
    IF name = NA THEN NoId
    ELSE IF v = "gallery" THEN SelectId(tbl, name)
    ELSE get_id(v, tbl, name).id

\* The tuple bound to the INSERT for one data-frame row.
BookValues(v, st, r) ==
    [book_id |-> IntOf(r.book_id),
     title |-> IF v = "gallery" /\ r.title = NA THEN NAText ELSE r.title,
     edition_year |-> StrOrNone(r.edition_year),
     location |-> StrOrNone(r.location),
     brand_id |-> DimensionId(v, st.brand, r.brand),
     model_id |-> DimensionId(v, st.model, r.model),
     machine_type_id |-> DimensionId(v, st.machine_type, r.machine_type),
     language_id |-> DimensionId(v, st.language, r.language)]

MaxOf(S) == IF S = {} THEN 0 ELSE CHOOSE m \in S : \A x \in S : x <= m

\* The rowid SQLite gives a new row: one more than the largest in the table.
NextRowId(books) == MaxOf({books[i].id : i \in 1..Len(books)}) + 1

WithId(vals, id) ==
    [id |-> id, book_id |-> vals.book_id, title |-> vals.title,
     edition_year |-> vals.edition_year, location |-> vals.location,
     brand_id |-> vals.brand_id, model_id |-> vals.model_id,
     machine_type_id |-> vals.machine_type_id, language_id |-> vals.language_id]

HasBookId(books, b) == \E i \in 1..Len(books) : books[i].book_id = b

\* INSERT INTO books ...: the table afterwards (book_id is UNIQUE, so the
\* caller raises instead when HasBookId holds).
InsertBook(books, vals) == Append(books, WithId(vals, NextRowId(books)))

\* A variant of InsertOrReplaceBook that keeps the earlier row.
InsertBookKeepingOld(books, vals) == Append(books, WithId(vals, NextRowId(books)))

\* INSERT OR REPLACE INTO books ...: a row with the same book_id is deleted first.
InsertOrReplaceBook(books, vals) ==
    LET Other(b) == b.book_id # vals.book_id
        kept == SelectSeq(books, Other)
    IN  Append(kept, WithId(vals, NextRowId(kept)))

\* web, desktop: the loop "for _, r in df.iterrows()" of populate_replace, run
\* on an open transaction.  It raises on a book number that is no number
\* (int), on a missing title (pd.NA cannot be bound) and on a second row with
\* the same book_id (UNIQUE).
RECURSIVE InsertRows(_, _, _)
InsertRows(v, st, rows) ==
    IF rows = <<>> THEN [err |-> "none", store |-> st]
    ELSE LET r == Head(rows)
             st1 == [st EXCEPT
                        !.brand = IF r.brand = NA THEN @ ELSE get_id(v, @, r.brand).tbl,
                        !.machine_type = IF r.machine_type = NA THEN @
                                         ELSE get_id(v, @, r.machine_type).tbl,
                        !.model = IF r.model = NA THEN @ ELSE get_id(v, @, r.model).tbl,
                        !.language = IF r.language = NA THEN @
                                     ELSE get_id(v, @, r.language).tbl]
         IN  IF IntRaises(r.book_id) THEN [err |-> "book_id", store |-> st1]
             ELSE IF r.title = NA THEN [err |-> "title", store |-> st1]
             ELSE IF HasBookId(st1.books, IntOf(r.book_id))
                  THEN [err |-> "duplicate", store |-> st1]
             ELSE InsertRows(v, [st1 EXCEPT !.books = InsertBook(@, BookValues(v, st1, r))],
                             Tail(rows))

\* gallery: cur.executemany('INSERT OR REPLACE INTO books ...', books_data)
RECURSIVE ReplaceRows(_, _, _)
ReplaceRows(v, st, rows) ==
    IF rows = <<>> THEN st
    ELSE ReplaceRows(v, [st EXCEPT !.books = InsertOrReplaceBook(@, BookValues(v, st, Head(rows)))],
                     Tail(rows))

\* populate_replace(conn, df): the error raised ("none" when it returns) and
\* the content of the database file afterwards.
\* web, desktop: the schema reset and the dimension rows are committed before
\* the books are written; when a book row raises, the connection is dropped
\* without commit and only the book phase is undone.
\* gallery: the schema reset is committed, then one transaction holds the
\* dimension rows and the books; it is rolled back when building a row raises.
populate_replace(v, df) ==
    LET dims == PopulateDimensions(v, df)
    IN  IF v = "gallery"
        THEN IF \E i \in 1..Len(df) : IntRaises(df[i].book_id)
             THEN [err |-> "book_id", store |-> create_schema]
             ELSE [err |-> "none", store |-> ReplaceRows(v, dims, df)]
        ELSE LET res == InsertRows(v, dims, df)
             IN  IF res.err = "none" THEN res ELSE [err |-> res.err, store |-> dims]

\* populate_replace on the data frame of a sheet that lacks one column which
\* load_excel_to_df does not touch.  r.get('edition_year') and
\* r.get('location') give None for a column that is not there; r['book_id']
\* raises KeyError when the first row is built, after the schema reset (and,
\* in web and desktop, after the commit of the dimension rows).
populate_frame(v, missing, df) ==
    IF missing = "book_id"
    THEN LET dims == PopulateDimensions(v, df)
         IN  IF df = <<>> THEN [err |-> "none", store |-> dims]
             ELSE [err |-> "column",
                   store |-> IF v = "gallery" THEN create_schema ELSE dims]
    ELSE LET Lacking(r) == IF missing \in {"edition_year", "location"}
                           THEN [r EXCEPT ![missing] = NA] ELSE r
         IN  populate_replace(v, [i \in 1..Len(df) |-> Lacking(df[i])])

\* The try block of the rebuild up to conn.close(): load_excel_to_df, then
\* sqlite3.connect and populate_replace.  The store is not opened when the
\* load raises.
import_workbook(v, st, wb) ==
    IF LoadRaises(wb) THEN [err |-> "load", store |-> st]
    ELSE populate_frame(v, wb.missing, load_excel_to_df(v, wb.rows))

-----------------------------------------------------------------------------
(* The read view.                                                          *)

\* LEFT JOIN <dimension> d ON b.<dimension>_id = d.id: d.name, NULL without a match.
JoinName(tbl, id) == IF id \in 1..Len(tbl) THEN tbl[id] ELSE NA

\* COALESCE(x, '') in the gallery query; the plain column in the others.
Coalesce(v, x) == IF v = "gallery" /\ x = NA THEN Empty ELSE x

ViewRow(v, st, b) ==
    [book_id |-> b.book_id,
     title |-> b.title,
     brand |-> Coalesce(v, JoinName(st.brand, b.brand_id)),
     model |-> Coalesce(v, JoinName(st.model, b.model_id)),
     machine_type |-> Coalesce(v, JoinName(st.machine_type, b.machine_type_id)),
     language |-> Coalesce(v, JoinName(st.language, b.language_id)),
     edition_year |-> Coalesce(v, b.edition_year),
     location |-> Coalesce(v, b.location)]

\* ORDER BY b.book_id (rows of equal book_id in rowid order).
RECURSIVE OrderByBookId(_)
OrderByBookId(B) ==
    IF B = {} THEN <<>>
    ELSE LET m == CHOOSE x \in B : \A y \in B :
                      x.book_id < y.book_id \/ (x.book_id = y.book_id /\ x.id <= y.id)
         IN  <<m>> \o OrderByBookId(B \ {m})

\* The SELECT of load_db_to_df, run against the database file.
ReadView(v, st) ==
    LET ordered == OrderByBookId(Range(st.books))
    IN  [i \in 1..Len(ordered) |-> ViewRow(v, st, ordered[i])]

\* The database files the program is pointed at.
Paths == {"books_archive.db", "other.db"}

NoEntry == [hit |-> FALSE, rows |-> <<>>]

\* load_db_to_df(db_path): the data frame returned and the cache afterwards.
\* gallery decorates it with @lru_cache(maxsize=128): a path that was loaded
\* before gives the data frame of that earlier call, the query is not run.
load_db_to_df(v, cache, path, st) ==
    IF v = "gallery" /\ cache[path].hit
    THEN [rows |-> cache[path].rows, cache |-> cache]
    ELSE LET rows == ReadView(v, st)
         IN  [rows |-> rows,
              cache |-> IF v = "gallery"
                        THEN [cache EXCEPT ![path] = [hit |-> TRUE, rows |-> rows]]
                        ELSE cache]

-----------------------------------------------------------------------------
(* Filter and search.                                                      *)

\* re.compile(q) fails: of the characters used, "(" opens a group that is
\* never closed.
PatternRaises(p) == \E i \in 1..Len(p) : p[i] = "("

\* One pattern character against one character of the text, re.IGNORECASE:
\* "." stands for any character.
CharMatches(pc, tc) == pc = "." \/ LowerChar(pc) = LowerChar(tc)

\* Series.str.contains(q, case=False, na=False): re.search of the pattern q.
Contains(text, p) ==
    \E i \in 1..(Len(text) - Len(p) + 1) :
        \A j \in 1..Len(p) : CharMatches(p[j], text[i + j - 1])

\* The test that decides whether a selection constrains its dimension.
\* web: f != "(all)";  desktop, gallery: f and f != "(all)".
SelectionActive(v, f) ==
    IF v = "web" THEN f # ALL ELSE f # Empty /\ f # ALL

\* The query as the filter uses it: web takes the text as typed, desktop and
\* gallery take text().strip().
QueryOf(v, text) == IF v = "web" THEN text ELSE Strip(text)

RowPasses(v, r, s, p) ==
    /\ \A d \in Dims : SelectionActive(v, s[d]) => r[d] = s[d]
    /\ p # Empty => Contains(r.title, p)

\* A variant of FilterRows that hands the kept rows back last row first.
FilterRowsReversed(v, rows, s, text) ==
    LET p == QueryOf(v, text)
        Keep(r) == RowPasses(v, r, s, p)
        kept == SelectSeq(rows, Keep)
    IN  [raised |-> FALSE, rows |-> [i \in 1..Len(kept) |-> kept[Len(kept) + 1 - i]]]

\* The filter block of the three variants: the rows kept, or raised = TRUE
\* when compiling the query as a pattern raises (desktop runs the block only
\* "if not df.empty").
FilterRows(v, rows, s, text) ==
    LET p == QueryOf(v, text)
        Keep(r) == RowPasses(v, r, s, p)
        reached == IF v = "desktop" THEN rows # <<>> ELSE TRUE
    IN  IF reached /\ p # Empty /\ PatternRaises(p)
        THEN [raised |-> TRUE, rows |-> <<>>]
        ELSE [raised |-> FALSE, rows |-> SelectSeq(rows, Keep)]

\* The entries of one filter box for a snapshot.
\* web, desktop: ["(all)"] + sorted(series.dropna().unique())
\* gallery: the same with sort(key=lambda x: str(x).strip())
Options(v, rows, d) ==
    <<ALL>> \o Sorted(Range(Unique(Column(rows, d))))

AllSelected == [d \in Dims |-> ALL]

\* _update_filters / the four st.selectbox calls: the entries of every box.
update_filters(v, rows) == [d \in Dims |-> Options(v, rows, d)]

-----------------------------------------------------------------------------
(* The program: rebuild from a spreadsheet, (re)load of the database file, *)
(* and the filter callback of the gallery variant.                         *)

DbPath == "books_archive.db"

\* A dimension table after CREATE TABLE, before any call of get_id on it; no
\* result of get_id_cached is remembered yet.
NewDimension == [rows |-> <<>>, cache |-> {}, calls |-> 0, name |-> NA, id |-> NoId]

\* The books whose pictures are looked for.
BookIds == {<<"1">>, <<"2">>}

\* An empty picture folder, BOOK_IMAGES_CACHE = {} and no search made yet.
NoPics ==
    [files |-> {}, cache |-> [b \in BookIds |-> [hit |-> FALSE, images |-> <<>>]],
     calls |-> 0, book_id |-> NA, images |-> <<>>]

\* A list of books handed to the gallery view: the call it came with and
\* its length.  Book i of the list of call k makes the card <<k, i>>.
NoBooks == [k |-> 0, n |-> 0]

\* GalleryView.__init__: no books, overlay hidden, empty grid, no timer.
NewGalleryView ==
    [books_data |-> NoBooks, current_filtered_data |-> NoBooks, is_loading |-> FALSE,
     grid |-> <<>>, timers |-> <<>>, calls |-> 0]

\* The image files thumbnails are asked for.
ImageFiles == {"i1", "i2", "i3", "i4"}

\* ImageCache._init_cache: nothing cached; no call of get_thumbnail made yet.
NewImageCache ==
    [thumbnails |-> {}, lru_queue |-> <<>>,
     calls |-> 0, hits |-> 0, key |-> "none", last_use |-> [k \in ImageFiles |-> 0]]

\* The browser sessions of the web program; each runs the script in a thread
\* of its own, on the same database file.
Sessions == {"s1", "s2"}

\* MainWindow.__init__ (gallery): the search timer is not running, no filter
\* callback is scheduled and the table is the current view.
NewSearch == [filter_timer |-> FALSE, async_calls |-> 0, current_view |-> "table"]

\* No ImageViewerDialog is on screen.
NoViewer ==
    [open |-> FALSE, image_paths |-> 0, current_index |-> 0, prev_btn |-> FALSE,
     next_btn |-> FALSE, timers |-> <<>>, moved |-> FALSE, failed |-> FALSE]

Init ==
    /\ viewer = NoViewer
    /\ db_path = DbPath
    /\ search = NewSearch
    /\ sessions = [s \in Sessions |-> [pc |-> "idle", df |-> <<>>]]
    /\ image_cache = NewImageCache
    /\ dimension = NewDimension
    /\ pics = NoPics
    /\ gallery_view = NewGalleryView
    /\ variant \in Variants
    /\ store = NoStore
    /\ imports = 0
    /\ last = [sheet |-> <<>>, err |-> "never", defect |-> "none", missing |-> "none",
               prior |-> "empty"]
    /\ df_full = [loaded |-> variant # "web", rows |-> <<>>]
    /\ loadCache = [p \in Paths |-> NoEntry]
    /\ opts = update_filters(variant, <<>>)
    /\ sel = AllSelected
    /\ q = Empty
    /\ shown = <<>>
    /\ count_lbl = 0
    /\ is_filtering = FALSE
    /\ msg = "none"

\* What follows a (re)load of the snapshot in the two desktop programs:
\* model.set_dataframe(_df_full), _update_filters(), apply_filters().
\* desktop filters at once; gallery returns on an empty snapshot and otherwise
\* sets _is_filtering and leaves the work to _apply_filters_async.
AfterLoad(rows) ==
    /\ opts' = update_filters(variant, rows)
    /\ sel' = AllSelected
    /\ IF variant = "desktop"
       THEN LET f == FilterRows(variant, rows, AllSelected, q)
            IN  /\ shown' = IF f.raised THEN rows ELSE f.rows
                /\ count_lbl' = IF f.raised THEN count_lbl ELSE Len(f.rows)
                /\ msg' = IF f.raised THEN "error" ELSE "ok"
                /\ UNCHANGED is_filtering
       ELSE /\ shown' = rows
            /\ is_filtering' = IF rows = <<>> THEN is_filtering ELSE TRUE
            /\ msg' = "ok"
            /\ UNCHANGED count_lbl

\* action_rebuild_from_excel / the rebuild button: load_excel_to_df,
\* populate_replace, load_db_to_df and the refresh of the window, or the
\* error message when one of them raises.
\* What the store held when a rebuild began, kept with the record of the
\* rebuild: no book, the books of the same sheet, or other books.
PriorContent(st, l, wb) ==
    IF st.books = <<>> THEN "empty"
    ELSE IF l.err = "none" /\ l.sheet = wb.rows THEN "same"
    ELSE "other"

\* A variant of the rebuild whose error branch also reloads the snapshot and
\* refreshes the window.
RebuildWorkbookReloading(wb) ==
    /\ imports < MaxImports
    /\ imports' = imports + 1
    /\ LET res == import_workbook(variant, store, wb)
           ld == load_db_to_df(variant, loadCache, db_path, res.store)
       IN  /\ store' = res.store
           /\ last' = [sheet |-> wb.rows, err |-> res.err,
                       defect |-> wb.defect, missing |-> wb.missing,
                       prior |-> PriorContent(store, last, wb)]
           /\ df_full' = [loaded |-> TRUE, rows |-> ld.rows]
           /\ loadCache' = ld.cache
           /\ IF res.err # "none"
              THEN /\ msg' = "error"
                   /\ opts' = update_filters(variant, ld.rows)
                   /\ sel' = AllSelected
                   /\ shown' = ld.rows
                   /\ UNCHANGED <<count_lbl, is_filtering>>
              ELSE IF variant = "web"
                   THEN /\ msg' = "ok"
                        /\ UNCHANGED <<opts, sel, shown, count_lbl, is_filtering>>
                   ELSE AfterLoad(ld.rows)
    /\ UNCHANGED <<aux, variant, q>>

RebuildWorkbook(wb) ==
    /\ imports < MaxImports
    /\ imports' = imports + 1
    /\ LET res == import_workbook(variant, store, wb)
           ld == load_db_to_df(variant, loadCache, db_path, res.store)
       IN  /\ store' = res.store
           /\ last' = [sheet |-> wb.rows, err |-> res.err,
                       defect |-> wb.defect, missing |-> wb.missing,
                       prior |-> PriorContent(store, last, wb)]
           /\ IF res.err # "none"
              THEN /\ msg' = "error"
                   /\ UNCHANGED <<df_full, loadCache, opts, sel, shown, count_lbl,
                                  is_filtering>>
              ELSE /\ df_full' = [loaded |-> TRUE, rows |-> ld.rows]
                   /\ loadCache' = ld.cache
                   /\ IF variant = "web"
                      THEN /\ msg' = "ok"
                           /\ UNCHANGED <<opts, sel, shown, count_lbl, is_filtering>>
                      ELSE AfterLoad(ld.rows)
    /\ UNCHANGED <<aux, variant, q>>

\* A rebuild from a readable workbook whose sheet has all eight columns.
Rebuild(sheet) == RebuildWorkbook(GoodWorkbook(sheet))

\* desktop, gallery: action_choose_db with the current file, i.e.
\* _load_db_if_exists (and, in desktop, _update_filters and apply_filters).
ChooseDb ==
    /\ variant # "web"
    /\ store.exists
    /\ LET ld == load_db_to_df(variant, loadCache, db_path, store)
       IN  /\ df_full' = [loaded |-> TRUE, rows |-> ld.rows]
           /\ loadCache' = ld.cache
           /\ AfterLoad(ld.rows)
    /\ UNCHANGED <<aux, variant, store, imports, last, q>>

\* A variant of Render that builds the select boxes from the filtered rows.
RenderNarrowing(s, text) ==
    /\ variant = "web"
    /\ store.exists
    /\ LET ld == load_db_to_df(variant, loadCache, db_path, store)
           rows == IF df_full.loaded THEN df_full.rows ELSE ld.rows
           f == FilterRows(variant, rows, s, text)
       IN  /\ df_full' = [loaded |-> TRUE, rows |-> rows]
           /\ opts' = update_filters(variant, f.rows)
           /\ sel' = s
           /\ shown' = f.rows
           /\ count_lbl' = Len(f.rows)
           /\ msg' = IF f.raised THEN "exception" ELSE "ok"
    /\ q' = text
    /\ UNCHANGED <<aux, variant, store, imports, last, loadCache, is_filtering>>

\* web: one run of the script on the archive page with the widget values s
\* and text: the snapshot is loaded if the session has none, the select boxes
\* are built from it (a value that is no entry any more falls back to the
\* first entry), then the filter block renders the rows and the count.  An exception ends the run before
\* anything is rendered.
Render(s, text) ==
    /\ variant = "web"
    /\ store.exists
    /\ LET ld == load_db_to_df(variant, loadCache, db_path, store)
           rows == IF df_full.loaded THEN df_full.rows ELSE ld.rows
           boxes == update_filters(variant, rows)
           picked == [d \in Dims |-> IF s[d] \in Range(boxes[d]) THEN s[d] ELSE ALL]
           f == FilterRows(variant, rows, picked, text)
       IN  /\ df_full' = [loaded |-> TRUE, rows |-> rows]
           /\ opts' = boxes
           /\ sel' = picked
           /\ shown' = f.rows
           /\ count_lbl' = Len(f.rows)
           /\ msg' = IF f.raised THEN "exception" ELSE "ok"
    /\ q' = text
    /\ UNCHANGED <<aux, variant, store, imports, last, loadCache, is_filtering>>

\* web: the archive page is opened or refreshed.
RenderArchive == Render(sel, q)

\* desktop: apply_filters with the widget values s and text.  An exception
\* leaves the slot before the label and the table are updated.
ApplyNow(s, text) ==
    LET f == FilterRows(variant, df_full.rows, s, text)
    IN  /\ shown' = IF f.raised THEN shown ELSE f.rows
        /\ count_lbl' = IF f.raised THEN count_lbl ELSE Len(f.rows)
        /\ msg' = IF f.raised THEN "exception" ELSE "ok"

\* gallery: _apply_filters_async, the timer callback apply_filters schedules.
\* An exception is caught and reported in the status bar; finally
\* _is_filtering is cleared.
ApplyFiltersAsync ==
    /\ variant = "gallery"
    /\ is_filtering
    /\ LET f == FilterRows(variant, df_full.rows, sel, q)
       IN  /\ shown' = IF f.raised THEN shown ELSE f.rows
           /\ count_lbl' = IF f.raised THEN count_lbl ELSE Len(f.rows)
           /\ msg' = IF f.raised THEN "error" ELSE "ok"
    /\ is_filtering' = FALSE
    /\ UNCHANGED <<aux, variant, store, imports, last, df_full, loadCache, opts, sel, q>>

-----------------------------------------------------------------------------
(* The filter panel.                                                       *)

\* Texts typed into the search box.
Queries == {Empty, <<" ">>, <<"a">>, <<"B">>, <<".">>, <<"(">>, <<" ", "a">>}

\* The user picks entry x of the filter box of dimension d.
\* web: the script runs again;  desktop: currentIndexChanged is connected to
\* apply_filters;  gallery: nothing runs until the filters are applied.
Select(d, x) ==
    /\ df_full.loaded
    /\ x \in Range(opts[d])
    /\ x # sel[d]
    /\ LET s == [sel EXCEPT ![d] = x]
       IN  CASE variant = "web" -> Render(s, q)
             [] variant = "desktop" ->
                    /\ sel' = s
                    /\ ApplyNow(s, q)
                    /\ UNCHANGED <<aux, variant, store, imports, last, df_full, loadCache, opts,
                                   q, is_filtering>>
             [] OTHER ->
                    /\ sel' = s
                    /\ UNCHANGED <<aux, variant, store, imports, last, df_full, loadCache, opts,
                                   q, shown, count_lbl, is_filtering, msg>>

\* The user changes the search text.
\* web: the script runs again;  desktop: textChanged is connected to
\* apply_filters;  gallery: _on_search_text_changed only starts the timer
\* whose timeout applies the filters.
EditSearch(text) ==
    /\ df_full.loaded
    /\ text # q
    /\ CASE variant = "web" -> Render(sel, text)
         [] variant = "desktop" ->
                /\ q' = text
                /\ ApplyNow(sel, text)
                /\ UNCHANGED <<aux, variant, store, imports, last, df_full, loadCache, opts,
                               sel, is_filtering>>
         [] OTHER ->
                /\ q' = text
                /\ UNCHANGED <<aux, variant, store, imports, last, df_full, loadCache, opts,
                               sel, shown, count_lbl, is_filtering, msg>>

\* desktop, gallery: apply_filters (the apply button, the search button, the
\* timeout of the search timer).  gallery returns on an empty snapshot and
\* otherwise sets _is_filtering and schedules _apply_filters_async.
ApplyFilters ==
    /\ variant # "web"
    /\ IF variant = "desktop"
       THEN /\ ApplyNow(sel, q)
            /\ UNCHANGED is_filtering
       ELSE /\ is_filtering' = IF df_full.rows = <<>> THEN is_filtering ELSE TRUE
            /\ UNCHANGED <<shown, count_lbl, msg>>
    /\ UNCHANGED <<aux, variant, store, imports, last, df_full, loadCache, opts, sel, q>>

\* The rows of the sheets used to exercise the filters.
FilterSheetRows ==
    {[BaseRow EXCEPT !.title = <<"a", "b">>],
     [BaseRow EXCEPT !.book_id = NumCell(20), !.title = <<"B", " ", "a">>,
                     !.brand = <<" ">>],
     [BaseRow EXCEPT !.book_id = NumCell(20), !.title = <<"B", " ", "a">>,
                     !.brand = <<"b">>, !.language = NA]}

FilterSheets == SeqsUpTo(FilterSheetRows, MaxRows)

Next ==
    \/ \E sheet \in Sheets : Rebuild(sheet)
    \/ ChooseDb
    \/ RenderArchive
    \/ ApplyFiltersAsync

Spec == Init /\ [][Next]_vars

\* One rebuild, then the filter panel.
NextFilter ==
    \/ \E sheet \in FilterSheets : imports = 0 /\ Rebuild(sheet)
    \/ \E d \in Dims : \E x \in Range(opts[d]) : Select(d, x)
    \/ \E text \in Queries : EditSearch(text)
    \/ ApplyFilters
    \/ ApplyFiltersAsync
    \/ RenderArchive

SpecFilter == Init /\ [][NextFilter]_vars

\* The rows of the workbooks used to exercise defective workbooks, and rows
\* whose book number is missing or no number.
WorkbookRows == {BaseRow, [BaseRow EXCEPT !.book_id = NumCell(20), !.location = <<"k">>]}
BadNumberRows ==
    {[BaseRow EXCEPT !.book_id = NaCell],
     [BaseRow EXCEPT !.book_id = TextCell, !.brand = <<"b">>]}

Workbooks ==
    {Workbook(d, "none", <<>>) : d \in {"unreadable", "no_sheet"}}
    \cup {Workbook("none", c, rows) :
              c \in Columns, rows \in SeqsUpTo(WorkbookRows, MaxRows)}
    \cup {GoodWorkbook(rows) :
              rows \in SeqsUpTo(WorkbookRows \cup BadNumberRows, MaxRows)}

\* Rebuilds from workbooks of any kind, and the reloads of the window.
NextWorkbook ==
    \/ \E wb \in Workbooks : RebuildWorkbook(wb)
    \/ ChooseDb
    \/ RenderArchive
    \/ ApplyFiltersAsync

SpecWorkbook == Init /\ [][NextWorkbook]_vars

-----------------------------------------------------------------------------
(* Vocabulary of the properties.                                           *)

ImportStep == imports' = imports + 1
ImportFailed == last.err \notin {"none", "never"}
ImportSucceeded == last.err = "none"

\* The rows of a store, whether or not its file exists yet.
RowsOf(st) == [st EXCEPT !.exists = TRUE]

\* A source cell that carries no value: missing, empty, white space only, or
\* the text 'nan' (with or without surrounding white space).
Blank(cell) == cell = NA \/ Strip(cell) = Empty \/ Strip(cell) = NanText

\* The cleaned value of a source cell: absent, or the trimmed text.
Cleaned(cell) == IF Blank(cell) THEN NA ELSE Strip(cell)
CleanedLanguage(cell) == IF Blank(cell) THEN Unknown ELSE Strip(cell)

\* A name of the read view stands for an absent value when it is NULL or ''.
SameName(viewName, cleaned) ==
    IF cleaned = NA THEN viewName \in {NA, Empty} ELSE viewName = cleaned

IsInteger(cell) == cell.k = "num" /\ cell.v % 10 = 0

\* A sheet of well-formed rows: integer book numbers, all different, and a title.
WellFormed(sheet) ==
    /\ \A i \in 1..Len(sheet) : IsInteger(sheet[i].book_id) /\ ~Blank(sheet[i].title)
    /\ \A i, j \in 1..Len(sheet) : i # j => sheet[i].book_id # sheet[j].book_id

\* Two rows of the sheet have the same book number after int().
HasDuplicate(sheet) ==
    \E i, j \in 1..Len(sheet) :
        /\ i # j
        /\ ~IntRaises(sheet[i].book_id) /\ ~IntRaises(sheet[j].book_id)
        /\ IntOf(sheet[i].book_id) = IntOf(sheet[j].book_id)

BooksWithId(st, b) == {i \in 1..Len(st.books) : st.books[i].book_id = b}

-----------------------------------------------------------------------------
(* C1: an import is all-or-nothing: when it raises, the store holds the    *)
(* same book and dimension rows as before it began; when it returns, every *)
(* row of the sheet is in the store.                                       *)
C1_AllOrNothing ==
    [][ImportStep =>
          IF last'.err # "none"
          THEN RowsOf(store') = RowsOf(store)
          ELSE \A i \in 1..Len(last'.sheet) :
                  BooksWithId(store', IntOf(last'.sheet[i].book_id)) # {}]_vars

(* C2: in every reachable state each non-null brand_id, model_id,          *)
(* machine_type_id and language_id of every book is the id of a row of its *)
(* dimension table.                                                        *)
C2_ForeignKeysResolve ==
    \A i \in 1..Len(store.books) :
        /\ store.books[i].brand_id # NoId
              => store.books[i].brand_id \in 1..Len(store.brand)
        /\ store.books[i].model_id # NoId
              => store.books[i].model_id \in 1..Len(store.model)
        /\ store.books[i].machine_type_id # NoId
              => store.books[i].machine_type_id \in 1..Len(store.machine_type)
        /\ store.books[i].language_id # NoId
              => store.books[i].language_id \in 1..Len(store.language)

\* After two imports, the second successful, the store holds two books, one
\* with all four foreign keys set and one with a null brand_id.
C2_Witness ==
    /\ imports = 2
    /\ ImportSucceeded
    /\ Len(store.books) = 2
    /\ \E i \in 1..2 : store.books[i].brand_id = NoId
    /\ \E i \in 1..2 :
          /\ store.books[i].brand_id # NoId /\ store.books[i].model_id # NoId
          /\ store.books[i].machine_type_id # NoId /\ store.books[i].language_id # NoId

(* C3: no reachable store has two book rows with the same book_id; an      *)
(* import of a sheet with two rows of the same book_id (after int) either  *)
(* fails or leaves exactly one book with that book_id.                     *)
C3_UniqueBookId ==
    /\ \A i, j \in 1..Len(store.books) :
          i # j => store.books[i].book_id # store.books[j].book_id
    /\ HasDuplicate(last.sheet) =>
          \/ ImportFailed
          \/ \A i \in 1..Len(last.sheet) :
                Cardinality(BooksWithId(store, IntOf(last.sheet[i].book_id))) = 1

\* A sheet with the book numbers 1 and 1.5 was imported without error.
C3_Witness ==
    /\ HasDuplicate(last.sheet)
    /\ ImportSucceeded
    /\ \E i \in 1..Len(last.sheet) : last.sheet[i].book_id = NumCell(15)
    /\ Len(store.books) = 1

(* C4: after every successful import the snapshot used for filtering is    *)
(* the read view of the store as that import left it, also when the same   *)
(* database path had been loaded before.                                   *)
C4_SnapshotIsReadView ==
    ImportSucceeded => df_full.loaded /\ df_full.rows = ReadView(variant, store)

(* C5: after the import of N well-formed rows the read view has exactly N  *)
(* rows, one per source row, whose book_id, title, brand, model, machine    *)
(* type and language are the cleaned source values of that row.            *)
C5_RoundTrip ==
    (ImportSucceeded /\ WellFormed(last.sheet)) =>
        LET view == ReadView(variant, store)
        IN  /\ Len(view) = Len(last.sheet)
            /\ \A i \in 1..Len(last.sheet) :
                  \E j \in 1..Len(view) :
                      /\ view[j].book_id = IntOf(last.sheet[i].book_id)
                      /\ view[j].title = Cleaned(last.sheet[i].title)
                      /\ SameName(view[j].brand, Cleaned(last.sheet[i].brand))
                      /\ SameName(view[j].model, Cleaned(last.sheet[i].model))
                      /\ SameName(view[j].machine_type, Cleaned(last.sheet[i].machine_type))
                      /\ view[j].language = CleanedLanguage(last.sheet[i].language)

(* C9: after any import every dimension row has a name that is unique in   *)
(* its table, trimmed, not empty and not 'nan'; a source value that is     *)
(* empty, white space or 'nan' gives a null foreign key and no row.        *)
C9_DimensionNamesClean ==
    /\ \A d \in Dims : \A i \in 1..Len(store[d]) :
          /\ Strip(store[d][i]) = store[d][i]
          /\ store[d][i] # Empty
          /\ store[d][i] # NanText
          /\ \A j \in 1..Len(store[d]) : store[d][j] = store[d][i] => j = i
    /\ (ImportSucceeded /\ Len(last.sheet) = 1) =>
          \A i \in 1..Len(store.books) :
              /\ Blank(last.sheet[1].brand) => store.books[i].brand_id = NoId
              /\ Blank(last.sheet[1].model) => store.books[i].model_id = NoId
              /\ Blank(last.sheet[1].machine_type) => store.books[i].machine_type_id = NoId

(* C10: after a successful import every book whose source row has no       *)
(* language reads back with the language "Unknown", which is then a row of *)
(* the languages table, and every other book reads back with its language. *)
C10_LanguageDefault ==
    (ImportSucceeded /\ ~HasDuplicate(last.sheet)) =>
        LET view == ReadView(variant, store)
        IN  \A i \in 1..Len(last.sheet) :
                \E j \in 1..Len(view) :
                    /\ view[j].book_id = IntOf(last.sheet[i].book_id)
                    /\ view[j].language = CleanedLanguage(last.sheet[i].language)
                    /\ Blank(last.sheet[i].language) =>
                          \E k \in 1..Len(store.language) : store.language[k] = Unknown

-----------------------------------------------------------------------------
(* Properties of the filter panel, stated on the steps in which the filter *)
(* block runs.                                                             *)

FilterRan ==
    IF variant = "gallery" THEN ApplyFiltersAsync
    ELSE \/ ApplyFilters
         \/ RenderArchive
         \/ \E text \in Queries : EditSearch(text)
         \/ \E d \in Dims : \E x \in Range(opts[d]) : Select(d, x)

\* p occurs in text as a literal substring, letter case ignored.
LiteralContains(text, p) ==
    \E i \in 1..(Len(text) - Len(p) + 1) :
        \A j \in 1..Len(p) : LowerChar(p[j]) = LowerChar(text[i + j - 1])

(* C6: without a query the filtered output is exactly the rows that, for   *)
(* every dimension whose selection is not the "all" sentinel, have a       *)
(* dimension name equal to the selection; an absent name passes no         *)
(* selection; "all" on every dimension gives the full row set.             *)
C6_SelectionsFilter ==
    [][(FilterRan /\ q' = Empty) =>
          LET Keep(r) == \A d \in Dims : sel'[d] # ALL => (r[d] # NA /\ r[d] = sel'[d])
          IN  shown' = SelectSeq(df_full'.rows, Keep)]_vars

(* C7: filtering by a non-empty query alone returns exactly the rows whose *)
(* title contains the query as a literal, case-insensitive substring, and  *)
(* the filter never fails.                                                 *)
C7_SearchIsSubstring ==
    [][(FilterRan /\ sel' = AllSelected /\ q' # Empty) =>
          LET Keep(r) == LiteralContains(r.title, q')
          IN  /\ msg' \notin {"exception", "error"}
              /\ shown' = SelectSeq(df_full'.rows, Keep)]_vars

(* C8: a query that is empty or white space only gives the same filtered   *)
(* output as no query, for every row set and every selection.              *)
C8_BlankQueryIsNoQuery ==
    [][(FilterRan /\ Strip(q') = Empty) =>
          shown' = FilterRows(variant, df_full'.rows, sel', Empty).rows]_vars

-----------------------------------------------------------------------------
(* Properties of the rebuild from a defective workbook.                    *)

\* The workbook of the last rebuild was unreadable, had no sheet of the
\* expected name, or its sheet lacked a mapped column.
Defective(l) == l.defect # "none" \/ l.missing \in Columns

(* C11: when the workbook is unreadable, the sheet is missing or a mapped   *)
(* column is missing and the import reports a failure, the store is as it  *)
(* was before the import: no table dropped, created or written.            *)
C11_AbortBeforeMutation ==
    [][(ImportStep /\ Defective(last') /\ last'.err # "none") => store' = store]_vars

(* C13: an import of a sheet with at least one row that lacks one of the   *)
(* eight mapped columns fails; it never completes with the field as null.  *)
C13_MissingColumnFails ==
    [][(ImportStep /\ last'.defect = "none" /\ last'.missing \in Columns
          /\ last'.sheet # <<>>) => last'.err # "none"]_vars

-----------------------------------------------------------------------------
(* Properties of the replacement of the catalog.                           *)

\* Every row of the sheet has a book with its number in the store.
AllBooksStored(st, sheet) ==
    \A i \in 1..Len(sheet) :
        ~IntRaises(sheet[i].book_id) /\ BooksWithId(st, IntOf(sheet[i].book_id)) # {}

(* C12: after a failed import the store shows no partial catalog of the new *)
(* batch: no dimension rows of it without its books, and not only some of  *)
(* its books.                                                              *)
C12_NoPartialCatalog ==
    (ImportFailed /\ last.err # "load") =>
        \/ AllBooksStored(store, last.sheet)
        \/ /\ store.books = <<>>
           /\ \A d \in Dims : store[d] = <<>>

(* C14: importing the same well-formed sheet twice in a row leaves every    *)
(* dimension table with the same set of names, each once, and the same set *)
(* of rows in the read view.                                               *)
C14_ReimportSame ==
    [][(ImportStep /\ last.err = "none" /\ last'.defect = "none" /\ last'.missing = "none"
          /\ last.missing = "none" /\ last'.sheet = last.sheet /\ WellFormed(last.sheet)) =>
          /\ last'.err = "none"
          /\ \A d \in Dims :
                /\ Range(store'[d]) = Range(store[d])
                /\ Cardinality(Range(store'[d])) = Len(store'[d])
          /\ Range(ReadView(variant, store')) = Range(ReadView(variant, store))]_vars

\* A well-formed sheet of two rows was imported into the store that held it.
C14_Witness ==
    /\ last.prior = "same"
    /\ ImportSucceeded
    /\ WellFormed(last.sheet)
    /\ Len(last.sheet) = 2
    /\ Len(store.books) = 2

\* The name of a dimension row stems from the sheet: it is the trimmed text of
\* a cell of that column, or the default of the language column.
StemsFrom(d, name, sheet) ==
    \/ \E i \in 1..Len(sheet) : sheet[i][d] # NA /\ Strip(sheet[i][d]) = name
    \/ d = "language" /\ name = Unknown /\ \E i \in 1..Len(sheet) : Blank(sheet[i][d])

(* C15: after a successful import the store holds exactly what the imported *)
(* sheet gives: a book for every row and no other book, no dimension row   *)
(* that does not stem from the sheet, and no meta row.                     *)
C15_CompleteReplacement ==
    (ImportSucceeded /\ last.missing = "none") =>
        /\ AllBooksStored(store, last.sheet)
        /\ \A i \in 1..Len(store.books) :
              \E j \in 1..Len(last.sheet) :
                  store.books[i].book_id = IntOf(last.sheet[j].book_id)
        /\ \A d \in Dims : \A i \in 1..Len(store[d]) :
              StemsFrom(d, store[d][i], last.sheet)
        /\ store.meta = <<>>

\* A sheet with one book was imported into a store that held the books of
\* another sheet.
C15_Witness ==
    /\ last.prior = "other"
    /\ ImportSucceeded
    /\ Len(last.sheet) = 1
    /\ Len(store.books) = 1
    /\ Len(store.brand) = 1

(* C16: the read view has one row per stored book, in ascending book_id     *)
(* order, each dimension name being the name of the referenced dimension   *)
(* row, and absent (null) when the foreign key is null.                    *)
C16_ReadViewJoins ==
    LET view == ReadView(variant, store)
        NameOf(d, id) == IF id = NoId THEN NA ELSE store[d][id]
    IN  /\ Len(view) = Len(store.books)
        /\ \A i \in 1..(Len(view) - 1) : view[i].book_id < view[i + 1].book_id
        /\ \A i \in 1..Len(store.books) :
              LET b == store.books[i]
              IN  \E j \in 1..Len(view) :
                      /\ view[j].book_id = b.book_id
                      /\ view[j].brand = NameOf("brand", b.brand_id)
                      /\ view[j].model = NameOf("model", b.model_id)
                      /\ view[j].machine_type = NameOf("machine_type", b.machine_type_id)
                      /\ view[j].language = NameOf("language", b.language_id)

-----------------------------------------------------------------------------
(* Properties of the option lists and of the frame of the filter.          *)

\* The steps that fill the filter boxes: a run of the archive page (web), a
\* successful rebuild or a reload of the database file (desktop, gallery).
OptionsFilled ==
    IF variant = "web" THEN FilterRan
    ELSE (ImportStep /\ last'.err = "none") \/ ChooseDb

\* The names of dimension d that occur in the rows; an absent name is none.
NamesIn(rows, d) == {rows[i][d] : i \in 1..Len(rows)} \ {NA, Empty}

\* The entries are the sentinel, then the names of the rows in ascending order.
WellOffered(entries, rows, d) ==
    /\ entries # <<>>
    /\ Head(entries) = ALL
    /\ Range(Tail(entries)) = NamesIn(rows, d)
    /\ \A i \in 2..(Len(entries) - 1) : StrLess(entries[i], entries[i + 1])

(* C17: the entries of every filter box are the "all" sentinel first, then  *)
(* the distinct non-null names of the full row set, each once, in          *)
(* ascending order; an absent dimension gives no entry, so no empty entry  *)
(* is offered.                                                             *)
C17_OptionsOffered ==
    [][OptionsFilled => \A d \in Dims : WellOffered(opts'[d], df_full'.rows, d)]_vars

\* web builds the boxes on every run of the page: they are those of the
\* snapshot once the page ran after the load.
BoxesBuilt == variant = "web" => opts = update_filters(variant, df_full.rows)

(* C18: applying the filters changes neither the snapshot nor the entries  *)
(* of any box nor the selection of any dimension other than the one the    *)
(* user changed, and what is shown depends on the snapshot, the selections *)
(* and the query alone, so that the same inputs give the same output.      *)
C18_FilterFrame ==
    [][(FilterRan /\ BoxesBuilt /\ df_full.loaded) =>
          /\ df_full' = df_full
          /\ opts' = opts
          /\ Cardinality({d \in Dims : sel'[d] # sel[d]}) <= 1
          /\ q' # q => sel' = sel
          /\ msg' = "ok" =>
                shown' = FilterRows(variant, df_full.rows, sel', q').rows]_vars

\* A selection on one dimension was applied to a snapshot of two rows, one
\* of which it keeps, and the boxes still offer every entry.
C18_Witness ==
    /\ Len(df_full.rows) = 2
    /\ Len(shown) = 1
    /\ msg = "ok"
    /\ sel["brand"] # ALL
    /\ Len(opts["brand"]) = 3
    /\ sel["language"] = ALL

\* sub is rows with some rows left out, the others in their order.
RECURSIVE IsSubsequence(_, _)
IsSubsequence(sub, rows) ==
    IF sub = <<>> THEN TRUE
    ELSE IF rows = <<>> THEN FALSE
    ELSE IF Head(sub) = Head(rows) THEN IsSubsequence(Tail(sub), Tail(rows))
    ELSE IsSubsequence(sub, Tail(rows))

(* C19: when the filter has run, the rows shown are a subsequence of the    *)
(* full row set in its order (book_id ascending) and the count reported is *)
(* the number of rows shown.                                               *)
C19_StableSubsequence ==
    [][(FilterRan /\ msg' = "ok") =>
          /\ IsSubsequence(shown', df_full'.rows)
          /\ \A i \in 1..(Len(shown') - 1) : shown'[i].book_id <= shown'[i + 1].book_id
          /\ count_lbl' = Len(shown')]_vars

\* The query 'a' kept both rows of a snapshot of two rows.
C19_Witness ==
    /\ Len(df_full.rows) = 2
    /\ q = <<"a">>
    /\ msg = "ok"
    /\ Len(shown) = 2
    /\ count_lbl = 2

-----------------------------------------------------------------------------
(* Properties of the book number.                                          *)

\* A row of the sheet has no book number, or one that is no number.
HasBadNumber(sheet) == \E i \in 1..Len(sheet) : sheet[i].book_id.k # "num"

(* C20: an import of a batch with a row whose book_id is absent or no       *)
(* number fails as a whole and reports it; no book of the batch is stored, *)
(* so none is stored under a number other than its own.                    *)
C20_BadNumberFails ==
    [][(ImportStep /\ last'.defect = "none" /\ last'.missing = "none"
          /\ HasBadNumber(last'.sheet)) =>
          /\ last'.err # "none"
          /\ msg' = "error"
          /\ store'.books = <<>>]_vars

\* A sheet with a good row and a row whose book number is text was refused.
C20_Witness ==
    /\ last.err = "book_id"
    /\ msg = "error"
    /\ Len(last.sheet) = 2
    /\ last.sheet[1].book_id = NumCell(10)
    /\ last.sheet[2].book_id = TextCell
    /\ last.prior # "empty"

-----------------------------------------------------------------------------
(* Properties of a failed import in the window.                            *)

(* C21: when an import fails (load_excel_to_df or populate_replace raises) *)
(* an error message is presented and the in-memory snapshot, the option    *)
(* lists and the displayed rows are what they were before the attempt.     *)
C21_FailureKeepsView ==
    [][(ImportStep /\ last'.err # "none") =>
          /\ msg' = "error"
          /\ df_full' = df_full
          /\ opts' = opts
          /\ sel' = sel
          /\ shown' = shown
          /\ count_lbl' = count_lbl]_vars

\* An import has just failed in a window that shows a book and offers a brand.
C21_Witness ==
    /\ ImportFailed
    /\ msg = "error"
    /\ df_full.rows # <<>>
    /\ shown # <<>>
    /\ Len(opts["brand"]) > 1

-----------------------------------------------------------------------------
(* Get-or-create of a dimension value.                                     *)

\* The names get_id is called with: a missing value, the empty text a
\* white-space cell is stripped to, and two names.
Names == {NA, Empty, <<"a">>, <<"b">>}

\* One call of get_id (web, desktop) or get_id_cached (gallery) on the table.
GetId(name) ==
    /\ dimension.calls < MaxCalls
    /\ IF variant = "gallery"
       THEN LET r == get_id_cached(dimension.cache, dimension.rows, name)
            IN  dimension' = [rows |-> r.tbl, cache |-> r.cache,
                              calls |-> dimension.calls + 1,
                              name |-> name, id |-> r.id]
       ELSE LET r == get_id(variant, dimension.rows, name)
            IN  dimension' = [dimension EXCEPT !.rows = r.tbl,
                                               !.calls = @ + 1,
                                               !.name = name, !.id = r.id]
    /\ UNCHANGED <<variant, store, imports, last, df_full, loadCache, opts, sel, q,
                   shown, count_lbl, is_filtering, msg, pics, gallery_view, image_cache, sessions, search, db_path, viewer>>

\* create_schema with drop: the table is dropped and created again through
\* the same connection; what lru_cache holds is not touched.
ResetDimension ==
    /\ dimension.rows # <<>>
    /\ dimension' = [dimension EXCEPT !.rows = <<>>]
    /\ UNCHANGED <<variant, store, imports, last, df_full, loadCache, opts, sel, q,
                   shown, count_lbl, is_filtering, msg, pics, gallery_view, image_cache, sessions, search, db_path, viewer>>

NextGetId ==
    \/ \E name \in Names : GetId(name)
    \/ ResetDimension

SpecGetId == Init /\ [][NextGetId]_vars

\* A call of get_id has just been made.
GetIdStep == dimension'.calls = dimension.calls + 1

(* C22: the first call of get-or-create with a non-blank name inserts      *)
(* exactly one row and returns its id; a later call with the same name     *)
(* returns the id of the row that holds the name now and leaves the table  *)
(* unchanged; a call with a null or blank name returns null and inserts    *)
(* nothing.                                                                *)
C22_GetOrCreate ==
    [][GetIdStep =>
        LET name == dimension'.name
            id == dimension'.id
            old == dimension.rows
            new == dimension'.rows
        IN  IF name = NA \/ Strip(name) = Empty
            THEN id = NoId /\ new = old
            ELSE IF \E i \in 1..Len(old) : old[i] = name
                 THEN new = old /\ id \in 1..Len(new) /\ new[id] = name
                 ELSE new = Append(old, name) /\ id = Len(new)]_vars

-----------------------------------------------------------------------------
(* The pictures of a book (gallery).                                       *)

PICS_DIR == <<"p">>
\* base_dir.iterdir(): the directories directly inside the picture folder.
SubDirs == {<<"p", "/", "s">>}
\* A directory two levels down, which the search does not enter.
DeepDir == <<"p", "/", "s", "/", "d">>

\* Two of the six extensions of the search; '.txt' is none of them.
Extensions == {<<".", "j", "p", "g">>, <<".", "p", "n", "g">>}
TxtExt == <<".", "t", "x", "t">>

Digit(i) == <<"0", "1", "2", "3", "4", "5", "6", "7", "8", "9">>[i + 1]

\* base_dir / f"{book_id}{ext}" and base_dir / f"{book_id}-{i}{ext}"
PlainPath(dir, book_id, ext) == dir \o <<"/">> \o book_id \o ext
NumberedPath(dir, book_id, i, ext) ==
    dir \o <<"/">> \o book_id \o <<"-", Digit(i)>> \o ext

\* The candidate paths the search tests with exists(), for one directory.
Candidates(dir, book_id) ==
    {PlainPath(dir, book_id, ext) : ext \in Extensions}
    \cup {NumberedPath(dir, book_id, i, ext) : i \in 1..9, ext \in Extensions}

\* find_book_images_fast(book_id): the answer kept in BOOK_IMAGES_CACHE if
\* there is one; otherwise the candidates that exist in the picture folder
\* and in its sub-directories, sorted, which are then kept in the cache.
find_book_images_fast(cache, files, book_id) ==
    IF cache[book_id].hit
    THEN [images |-> cache[book_id].images, cache |-> cache]
    ELSE LET dirs == {PICS_DIR} \cup SubDirs
             found == {p \in UNION {Candidates(d, book_id) : d \in dirs} : p \in files}
             images == Sorted(found)
         IN  [images |-> images,
              cache |-> [cache EXCEPT ![book_id] = [hit |-> TRUE, images |-> images]]]

\* The files that may be put into the picture folder: pictures of book 1 in
\* the folder and in a sub-directory, a picture two levels down, a picture
\* numbered 10, a text file, and a picture of book 2.
FileUniverse ==
    {PlainPath(PICS_DIR, <<"1">>, <<".", "j", "p", "g">>),
     NumberedPath(<<"p", "/", "s">>, <<"1">>, 2, <<".", "p", "n", "g">>),
     PlainPath(DeepDir, <<"1">>, <<".", "j", "p", "g">>),
     PICS_DIR \o <<"/", "1", "-", "1", "0", ".", "j", "p", "g">>,
     PlainPath(PICS_DIR, <<"1">>, TxtExt),
     PlainPath(PICS_DIR, <<"2">>, <<".", "j", "p", "g">>)}

\* The user copies a file into the picture folder, or deletes one.
AddFile(f) ==
    /\ variant = "gallery"
    /\ f \notin pics.files
    /\ pics' = [pics EXCEPT !.files = @ \cup {f}]
    /\ UNCHANGED <<variant, store, imports, last, df_full, loadCache, opts, sel, q,
                   shown, count_lbl, is_filtering, msg, dimension, gallery_view, image_cache, sessions, search, db_path, viewer>>

RemoveFile(f) ==
    /\ variant = "gallery"
    /\ f \in pics.files
    /\ pics' = [pics EXCEPT !.files = @ \ {f}]
    /\ UNCHANGED <<variant, store, imports, last, df_full, loadCache, opts, sel, q,
                   shown, count_lbl, is_filtering, msg, dimension, gallery_view, image_cache, sessions, search, db_path, viewer>>

\* A card, the picture button of the table or the picture dialog asks for
\* the pictures of a book.
FindBookImages(book_id) ==
    /\ variant = "gallery"
    /\ pics.calls < MaxFinds
    /\ LET r == find_book_images_fast(pics.cache, pics.files, book_id)
       IN  pics' = [pics EXCEPT !.cache = r.cache, !.calls = @ + 1,
                                !.book_id = book_id, !.images = r.images]
    /\ UNCHANGED <<variant, store, imports, last, df_full, loadCache, opts, sel, q,
                   shown, count_lbl, is_filtering, msg, dimension, gallery_view, image_cache, sessions, search, db_path, viewer>>

NextPics ==
    \/ \E f \in FileUniverse : AddFile(f)
    \/ \E f \in FileUniverse : RemoveFile(f)
    \/ \E b \in BookIds : FindBookImages(b)

SpecPics == Init /\ [][NextPics]_vars

\* A path is a picture of the book: {book_id}.{ext} or {book_id}-{n}.{ext},
\* n in 1..9, in the picture folder or directly in one of its directories.
IsImageOf(p, book_id) ==
    \E d \in {PICS_DIR} \cup SubDirs, ext \in Extensions :
        \/ p = d \o <<"/">> \o book_id \o ext
        \/ \E n \in 1..9 : p = d \o <<"/">> \o book_id \o <<"-", Digit(n)>> \o ext

IsSortedNoDuplicates(s) ==
    \A i, j \in 1..Len(s) : i < j => StrLess(s[i], s[j])

(* C23: every call of find_book_images_fast(book_id) returns, sorted and   *)
(* without duplicates, exactly the files that exist at the time of the     *)
(* call under a name {book_id}.{ext} or {book_id}-{n}.{ext} in a search    *)
(* directory or one of its immediate sub-directories, also when files were *)
(* added or removed since an earlier call for the same book.               *)
C23_FindsCurrentFiles ==
    [][pics'.calls = pics.calls + 1 =>
          /\ IsSortedNoDuplicates(pics'.images)
          /\ Range(pics'.images) = {p \in pics.files : IsImageOf(p, pics'.book_id)}]_vars

-----------------------------------------------------------------------------
(* The gallery view (gallery).                                             *)

batch_size == 10

\* Lengths of the lists shown: none, one batch, two batches, three batches.
ListLengths == {0, 1, 11, 21}

Min(a, b) == IF a < b THEN a ELSE b

\* QTimer.singleShot(ms, callback): the timers are kept in the order they
\* were set.
SingleShot(timers, ms, f, books, index) ==
    Append(timers, [ms |-> ms, f |-> f, books |-> books, index |-> index])

\* A pending timer can be the next to fire unless a timer set before it has
\* a delay that is not longer.
CanFire(timers, i) == \A j \in 1..(i - 1) : timers[j].ms > timers[i].ms

Without(timers, i) == SubSeq(timers, 1, i - 1) \o SubSeq(timers, i + 1, Len(timers))

\* _create_cards_gradually(books_data, cols, index): past the end of the
\* list the overlay is hidden; otherwise the cards of one batch are added to
\* the grid and a timer is set for the next batch.
create_cards_gradually(gv, books, index) ==
    IF index >= books.n
    THEN [gv EXCEPT !.is_loading = FALSE]
    ELSE LET end_index == Min(index + batch_size, books.n)
             batch == [j \in 1..(end_index - index) |-> <<books.k, index + j>>]
         IN  [gv EXCEPT !.grid = @ \o batch,
                        !.timers = SingleShot(@, 10, "create", books, end_index)]

\* display_books_async(books_data): the widgets of the grid are deleted; an
\* empty list hides the overlay, any other starts the creation of the cards.
display_books_async(gv, books) ==
    LET cleared == [gv EXCEPT !.current_filtered_data = books, !.grid = <<>>]
    IN  IF books.n = 0
        THEN [cleared EXCEPT !.is_loading = FALSE]
        ELSE create_cards_gradually(cleared, books, 0)

GalleryUnchanged ==
    UNCHANGED <<variant, store, imports, last, df_full, loadCache, opts, sel, q,
                shown, count_lbl, is_filtering, msg, dimension, pics, image_cache, sessions, search, db_path, viewer>>

\* set_books_data(books_data): the list is kept, the overlay shown and
\* display_books_async set to run after 50 ms.
SetBooksData(n) ==
    /\ variant = "gallery"
    /\ gallery_view.calls < MaxDisplays
    /\ Len(gallery_view.timers) < MaxTimers
    /\ LET books == [k |-> gallery_view.calls + 1, n |-> n]
       IN  gallery_view' =
               [gallery_view EXCEPT
                   !.books_data = books, !.is_loading = TRUE, !.calls = @ + 1,
                   !.timers = SingleShot(@, 50, "display", books, 0)]
    /\ GalleryUnchanged

\* GalleryView.resizeEvent: with books on display and the overlay hidden the
\* current list is displayed again after 100 ms.
ResizeGallery ==
    /\ variant = "gallery"
    /\ gallery_view.current_filtered_data.n > 0
    /\ ~gallery_view.is_loading
    /\ Len(gallery_view.timers) < MaxTimers
    /\ gallery_view' =
           [gallery_view EXCEPT
               !.timers = SingleShot(@, 100, "display",
                                     gallery_view.current_filtered_data, 0)]
    /\ GalleryUnchanged

\* A single-shot timer of the gallery view fires and its callback runs.
GalleryTimer(i) ==
    /\ i \in 1..Len(gallery_view.timers)
    /\ CanFire(gallery_view.timers, i)
    /\ LET t == gallery_view.timers[i]
           gv == [gallery_view EXCEPT !.timers = Without(@, i)]
       IN  gallery_view' = IF t.f = "display"
                           THEN display_books_async(gv, t.books)
                           ELSE create_cards_gradually(gv, t.books, t.index)
    /\ GalleryUnchanged

NextGallery ==
    \/ \E n \in ListLengths : SetBooksData(n)
    \/ ResizeGallery
    \/ \E i \in 1..MaxTimers : GalleryTimer(i)

SpecGallery == Init /\ [][NextGallery]_vars

\* One card per book of the list, in list order.
CardsOf(books) == [i \in 1..books.n |-> <<books.k, i>>]

(* C24: whenever the loading overlay of the gallery view is hidden after   *)
(* one or more set_books_data calls, the grid holds exactly one card per   *)
(* book of the list of the most recent call, in list order, and no card of *)
(* an earlier list, also when a call arrives while an earlier chain of     *)
(* _create_cards_gradually is still running.                               *)
C24_GridShowsLatestList ==
    (gallery_view.calls > 0 /\ ~gallery_view.is_loading) =>
        gallery_view.grid = CardsOf(gallery_view.books_data)

-----------------------------------------------------------------------------
(* The thumbnail cache (gallery).                                          *)

\* list.remove(key): the list without the first occurrence of key.
RECURSIVE Remove(_, _)
Remove(s, key) ==
    IF s = <<>> THEN <<>>
    ELSE IF Head(s) = key THEN Tail(s) ELSE <<Head(s)>> \o Remove(Tail(s), key)

\* A variant of get_thumbnail that leaves the queue alone on a hit.
get_thumbnail_fifo(thumbnails, lru_queue, key, created) ==
    IF key \in thumbnails
    THEN [thumbnails |-> thumbnails, lru_queue |-> lru_queue]
    ELSE IF created
         THEN IF Cardinality(thumbnails \cup {key}) > max_cache_size
              THEN [thumbnails |-> (thumbnails \cup {key}) \ {Head(lru_queue)},
                    lru_queue |-> Tail(Append(lru_queue, key))]
              ELSE [thumbnails |-> thumbnails \cup {key},
                    lru_queue |-> Append(lru_queue, key)]
         ELSE [thumbnails |-> thumbnails, lru_queue |-> lru_queue]

\* ImageCache.get_thumbnail(image_path): thumbnails (its keys) and lru_queue
\* afterwards.  created tells whether _create_thumbnail gives a thumbnail.
get_thumbnail(thumbnails, lru_queue, key, created) ==
    IF key \in thumbnails
    THEN [thumbnails |-> thumbnails,
          lru_queue |-> Append(Remove(lru_queue, key), key)]
    ELSE IF created
         THEN LET ts == thumbnails \cup {key}
                  qu == Append(lru_queue, key)
              IN  IF Cardinality(ts) > max_cache_size
                  THEN [thumbnails |-> ts \ {Head(qu)}, lru_queue |-> Tail(qu)]
                  ELSE [thumbnails |-> ts, lru_queue |-> qu]
         ELSE [thumbnails |-> thumbnails, lru_queue |-> lru_queue]

\* Enough calls to fill the cache, use a cached thumbnail and overflow.
MaxGets == max_cache_size + 2

\* A card asks for the thumbnail of an image.  last_use notes, for every
\* image, the call that last returned its thumbnail; hits counts the calls
\* answered from the cache.
GetThumbnail(key, created) ==
    /\ variant = "gallery"
    /\ image_cache.calls < MaxGets
    /\ LET r == get_thumbnail(image_cache.thumbnails, image_cache.lru_queue, key, created)
           returned == key \in image_cache.thumbnails \/ created
       IN  image_cache' =
               [thumbnails |-> r.thumbnails, lru_queue |-> r.lru_queue,
                calls |-> image_cache.calls + 1, key |-> key,
                hits |-> image_cache.hits + (IF key \in image_cache.thumbnails THEN 1 ELSE 0),
                last_use |-> IF returned
                             THEN [image_cache.last_use EXCEPT ![key] = image_cache.calls + 1]
                             ELSE image_cache.last_use]
    /\ UNCHANGED <<variant, store, imports, last, df_full, loadCache, opts, sel, q,
                   shown, count_lbl, is_filtering, msg, dimension, pics, gallery_view, sessions, search, db_path, viewer>>

NextThumbnails == \E key \in ImageFiles, created \in BOOLEAN : GetThumbnail(key, created)

SpecThumbnails == Init /\ [][NextThumbnails]_vars

\* lru_queue lists exactly the cached keys, once each, least recently used
\* first.
QueueInRecencyOrder ==
    /\ Range(image_cache.lru_queue) = image_cache.thumbnails
    /\ Len(image_cache.lru_queue) = Cardinality(image_cache.thumbnails)
    /\ \A i, j \in 1..Len(image_cache.lru_queue) :
           i < j => image_cache.last_use[image_cache.lru_queue[i]]
                      < image_cache.last_use[image_cache.lru_queue[j]]

\* The cached key that was used longest ago.
LeastRecentlyUsed(c) ==
    CHOOSE k \in c.thumbnails :
        \A other \in c.thumbnails : c.last_use[k] <= c.last_use[other]

(* C25: get_thumbnail is a least-recently-used cache of max_cache_size     *)
(* thumbnails: never more are held, lru_queue lists exactly the cached keys *)
(* once each in recency order, a hit moves its key to the most-recent end,  *)
(* and an insertion beyond capacity evicts exactly the least recently used  *)
(* key.                                                                     *)
C25_LeastRecentlyUsed ==
    /\ [](Cardinality(image_cache.thumbnails) <= max_cache_size /\ QueueInRecencyOrder)
    /\ [][image_cache'.calls = image_cache.calls + 1 =>
            LET key == image_cache'.key
                old == image_cache.thumbnails
                new == image_cache'.thumbnails
            IN  /\ key \in old =>
                      /\ new = old
                      /\ image_cache'.lru_queue[Len(image_cache'.lru_queue)] = key
                /\ (key \notin old /\ key \in new
                        /\ Cardinality(old) = max_cache_size) =>
                      new = (old \ {LeastRecentlyUsed(image_cache)}) \cup {key}
                /\ (key \notin old /\ Cardinality(old) < max_cache_size) =>
                      old \subseteq new]_vars

\* The cache was full, a cached thumbnail other than the newest was used
\* again, and a further image was then cached in place of another one.
C25_Witness ==
    /\ image_cache.calls = MaxGets
    /\ image_cache.hits > 0
    /\ Cardinality(image_cache.thumbnails) = max_cache_size
    /\ \E k \in ImageFiles :
           /\ k \notin image_cache.thumbnails
           /\ image_cache.last_use[k] > 0
           /\ \E older \in image_cache.thumbnails :
                  image_cache.last_use[older] > image_cache.last_use[k]
                  /\ image_cache.last_use[older] < MaxGets
    /\ image_cache.last_use[image_cache.key] = MaxGets

-----------------------------------------------------------------------------
(* Imports of several sessions into one database file (web).               *)

\* The sheets the sessions upload.
SessionSheets == SeqsUpTo(WorkbookRows, MaxRows)

SessionsUnchanged ==
    UNCHANGED <<variant, last, df_full, loadCache, opts, sel, q, shown, count_lbl,
                is_filtering, msg, dimension, pics, gallery_view, image_cache, search, db_path, viewer>>

\* The rebuild button of session s: load_excel_to_df, sqlite3.connect, and in
\* populate_replace create_schema(conn, drop=True), whose executescript
\* commits.  No lock or flag is taken.
SessionCreateSchema(s, sheet) ==
    /\ variant = "web"
    /\ imports < MaxImports
    /\ sessions[s].pc = "idle"
    /\ imports' = imports + 1
    /\ sessions' = [sessions EXCEPT ![s] = [pc |-> "schema",
                                            df |-> load_excel_to_df("web", sheet)]]
    /\ store' = create_schema
    /\ SessionsUnchanged

\* populate_replace of session s, the loop over the four dimensions and the
\* commit that follows it.
SessionDimensions(s) ==
    /\ variant = "web"
    /\ sessions[s].pc = "schema"
    /\ sessions' = [sessions EXCEPT ![s].pc = "dimensions"]
    /\ store' = [store EXCEPT
                    !.brand = PopulateDimension("web", @, sessions[s].df, "brand"),
                    !.machine_type = PopulateDimension("web", @, sessions[s].df, "machine_type"),
                    !.model = PopulateDimension("web", @, sessions[s].df, "model"),
                    !.language = PopulateDimension("web", @, sessions[s].df, "language")]
    /\ UNCHANGED imports
    /\ SessionsUnchanged

\* populate_replace of session s, the loop over the rows and the last commit;
\* when a row raises nothing of the loop is committed.
SessionBooks(s) ==
    /\ variant = "web"
    /\ sessions[s].pc = "dimensions"
    /\ sessions' = [sessions EXCEPT ![s] = [pc |-> "idle", df |-> <<>>]]
    /\ LET res == InsertRows("web", store, sessions[s].df)
       IN  store' = IF res.err = "none" THEN res.store ELSE store
    /\ UNCHANGED imports
    /\ SessionsUnchanged

NextSessions ==
    \/ \E s \in Sessions, sheet \in SessionSheets : SessionCreateSchema(s, sheet)
    \/ \E s \in Sessions : SessionDimensions(s)
    \/ \E s \in Sessions : SessionBooks(s)

SpecSessions == Init /\ [][NextSessions]_vars

\* The sessions whose populate_replace has begun and not ended.
Importing == {s \in Sessions : sessions[s].pc # "idle"}

(* C26: at most one import (populate_replace) is in progress against a     *)
(* database file at any time; a second one cannot start before the first   *)
(* has committed or failed, neither through events processed during a      *)
(* running import nor through a second session of the web program.         *)
C26_OneImportAtATime == Cardinality(Importing) <= 1

-----------------------------------------------------------------------------
(* The search box of the gallery program: timer and filter callbacks.      *)

\* Sheets of the database file the window finds when it starts.
SearchSheets == {sheet \in FilterSheets : Len(sheet) = MaxRows}

\* Texts typed into the search box; none of them is special as a pattern.
SearchTexts == {Empty, <<"a", "b">>, <<"B">>}

\* MainWindow.__init__ of the gallery program with a database file in place:
\* _load_db_if_exists loads the snapshot, hands it to the table, fills the
\* boxes and calls apply_filters, which schedules the first filter callback.
InitSearch ==
    /\ variant = "gallery"
    /\ \E sheet \in SearchSheets :
          LET st == populate_replace("gallery", load_excel_to_df("gallery", sheet)).store
              rows == ReadView("gallery", st)
          IN  /\ store = st
              /\ df_full = [loaded |-> TRUE, rows |-> rows]
              /\ loadCache = [p \in Paths |-> IF p = DbPath
                                                THEN [hit |-> TRUE, rows |-> rows]
                                                ELSE NoEntry]
              /\ opts = update_filters("gallery", rows)
              /\ shown = rows
    /\ imports = 0
    /\ last = [sheet |-> <<>>, err |-> "never", defect |-> "none", missing |-> "none",
               prior |-> "empty"]
    /\ sel = AllSelected
    /\ q = Empty
    /\ count_lbl = 0
    /\ is_filtering = TRUE
    /\ msg = "ok"
    /\ search = [filter_timer |-> FALSE, async_calls |-> 1, current_view |-> "table"]
    /\ viewer = NoViewer
    /\ db_path = DbPath
    /\ sessions = [s \in Sessions |-> [pc |-> "idle", df |-> <<>>]]
    /\ image_cache = NewImageCache
    /\ dimension = NewDimension
    /\ pics = NoPics
    /\ gallery_view = NewGalleryView

SearchUnchanged ==
    UNCHANGED <<variant, store, imports, last, df_full, loadCache, opts, sel,
                dimension, pics, gallery_view, image_cache, sessions, db_path, viewer>>

\* _on_search_text_changed, the slot of search_edt.textChanged: the timer is
\* (re)started unless _is_filtering is set.
OnSearchTextChanged(text) ==
    /\ variant = "gallery"
    /\ text # q
    /\ q' = text
    /\ search' = [search EXCEPT !.filter_timer = IF is_filtering THEN @ ELSE TRUE]
    /\ UNCHANGED <<shown, count_lbl, is_filtering, msg>>
    /\ SearchUnchanged

\* apply_filters: nothing on an empty snapshot; otherwise _is_filtering is
\* set and _apply_filters_async is scheduled.
apply_filters(s) ==
    IF df_full.rows = <<>>
    THEN /\ search' = s
         /\ UNCHANGED is_filtering
    ELSE /\ search' = [s EXCEPT !.async_calls = @ + 1]
         /\ is_filtering' = TRUE

\* The search timer times out: apply_filters_delayed.
FilterTimerTimeout ==
    /\ variant = "gallery"
    /\ search.filter_timer
    /\ search.async_calls < MaxTimers
    /\ apply_filters([search EXCEPT !.filter_timer = FALSE])
    /\ UNCHANGED <<q, shown, count_lbl, msg>>
    /\ SearchUnchanged

\* The apply button or the search button is pressed.
PressApply ==
    /\ variant = "gallery"
    /\ search.async_calls < MaxTimers
    /\ apply_filters(search)
    /\ UNCHANGED <<q, shown, count_lbl, msg>>
    /\ SearchUnchanged

\* No key is pressed while events are processed inside a callback.
NoEdit == <<"no edit">>

\* A scheduled _apply_filters_async runs: it reads the boxes and the search
\* text, hands the kept rows to the table and sets the count.  With the
\* gallery as current view it then calls gallery_view.set_books_data, whose
\* show_overlay runs QApplication.processEvents(): an edit of the search text
\* (nested) is handled there, by _on_search_text_changed, while _is_filtering
\* is still set (it is not when an earlier callback has cleared it: then the
\* timer is started).  finally clears _is_filtering.  (The cards of the
\* gallery view are followed in SpecGallery.)
ApplyFiltersAsyncRun(nested) ==
    /\ variant = "gallery"
    /\ search.async_calls > 0
    /\ LET f == FilterRows(variant, df_full.rows, sel, q)
       IN  /\ shown' = IF f.raised THEN shown ELSE f.rows
           /\ count_lbl' = IF f.raised THEN count_lbl ELSE Len(f.rows)
           /\ msg' = IF f.raised THEN "error" ELSE "ok"
           /\ IF nested = NoEdit
              THEN q' = q
              ELSE /\ search.current_view = "gallery"
                   /\ ~f.raised
                   /\ nested # q
                   /\ q' = nested
    /\ search' = [search EXCEPT
                      !.async_calls = @ - 1,
                      !.filter_timer = IF nested # NoEdit /\ ~is_filtering THEN TRUE ELSE @]
    /\ is_filtering' = FALSE
    /\ SearchUnchanged

\* _switch_view(view_type), refused while _is_filtering is set.
SwitchView(view) ==
    /\ variant = "gallery"
    /\ ~is_filtering
    /\ view # search.current_view
    /\ search' = [search EXCEPT !.current_view = view]
    /\ UNCHANGED <<q, shown, count_lbl, is_filtering, msg>>
    /\ SearchUnchanged

NextSearch ==
    \/ \E text \in SearchTexts : OnSearchTextChanged(text)
    \/ FilterTimerTimeout
    \/ PressApply
    \/ \E nested \in SearchTexts \cup {NoEdit} : ApplyFiltersAsyncRun(nested)
    \/ \E view \in {"table", "gallery"} : SwitchView(view)

SpecSearch == InitSearch /\ [][NextSearch]_vars

\* Neither the search timer nor a filter callback is pending.
NothingPending == ~search.filter_timer /\ search.async_calls = 0

(* C27: in the gallery program with a non-empty snapshot every edit of the *)
(* search text is eventually followed by a run of _apply_filters_async     *)
(* that reads the text then in effect, also an edit made while             *)
(* _is_filtering is set; so once no timer and no callback is pending,      *)
(* _is_filtering is false and the rows displayed are the filter result for *)
(* the current search text.                                                *)
C27_SearchIsApplied ==
    NothingPending =>
        /\ ~is_filtering
        /\ shown = FilterRows(variant, df_full.rows, sel, q).rows

-----------------------------------------------------------------------------
(* A switch to another database file (desktop, gallery).                   *)

\* Another database file the user can choose, with the tables of the schema
\* and no book.
OtherPath == "other.db"
OtherDb == create_schema

\* action_choose_db with that file: _db_path is set, then _load_db_if_exists
\* (in desktop followed by _update_filters and apply_filters).  From then on
\* it is the file the window reads and rebuilds.
ChooseOtherDb ==
    /\ variant # "web"
    /\ db_path = DbPath
    /\ db_path' = OtherPath
    /\ store' = OtherDb
    /\ LET ld == load_db_to_df(variant, loadCache, OtherPath, OtherDb)
       IN  /\ df_full' = [loaded |-> TRUE, rows |-> ld.rows]
           /\ loadCache' = ld.cache
           /\ AfterLoad(ld.rows)
    /\ UNCHANGED <<variant, imports, last, q, dimension, pics, gallery_view,
                   image_cache, sessions, search, viewer>>

NextSwitch ==
    \/ \E sheet \in FilterSheets : Rebuild(sheet)
    \/ ChooseDb
    \/ ChooseOtherDb
    \/ \E d \in Dims : \E x \in Range(opts[d]) : Select(d, x)
    \/ ApplyFilters
    \/ ApplyFiltersAsync

SpecSwitch == Init /\ [][NextSwitch]_vars

(* C28: in every quiescent state of the desktop programs (no filter        *)
(* callback pending) the result-count label equals the number of rows held *)
(* by the table model, after any sequence of filter applications, rebuilds *)
(* and database switches, also a switch to a database whose read view is   *)
(* empty.                                                                  *)
C28_CountMatchesTable ==
    (variant # "web" /\ ~is_filtering) => count_lbl = Len(shown)

-----------------------------------------------------------------------------
(* Properties of the title.                                                *)

\* A row of the sheet has no title.
LacksTitle(sheet) == \E i \in 1..Len(sheet) : sheet[i].title = NA

(* C29: no book is stored by an import unless its source row has a title:  *)
(* a row whose title is absent makes the import fail, and no book is ever  *)
(* stored with a null title or with a placeholder text in its place.       *)
C29_TitleRequired ==
    [][ImportStep =>
          /\ LacksTitle(last'.sheet) => (last'.err # "none" /\ store'.books = <<>>)
          /\ \A i \in 1..Len(store'.books) :
                 store'.books[i].title \notin {NA, NAText, NanText}]_vars

-----------------------------------------------------------------------------
(* ImageViewerDialog (gallery): the dialog that shows the pictures of a    *)
(* book one at a time.  image_paths is the length of the list the dialog   *)
(* was opened with (the list is not changed while it is open); timers are  *)
(* the indexes of the _load_image_async callbacks set to run, oldest       *)
(* first.  Whether a file yields a pixmap is known only when it is read.   *)
(* moved and failed note that a load has changed current_index and that a  *)
(* load has yielded a null pixmap.                                         *)

\* Longest picture list a dialog is opened with.
MaxImages == 3

\* Most _load_image_async callbacks pending at once.
MaxLoads == 2

\* _update_navigation
update_navigation(v) ==
    [v EXCEPT !.prev_btn = v.current_index > 0,
              !.next_btn = v.current_index < v.image_paths - 1]

\* _load_image(index): QTimer.singleShot(0, ...) when the index is in the list.
load_image(v, index) ==
    IF 0 <= index /\ index < v.image_paths
    THEN [v EXCEPT !.timers = Append(@, index)]
    ELSE v

\* _load_image_async that sets current_index and leaves the buttons alone.
load_image_async_no_refresh(v, index, isNull) ==
    IF ~isNull
    THEN [v EXCEPT !.current_index = index, !.moved = @ \/ index # v.current_index]
    ELSE [v EXCEPT !.failed = TRUE]

\* _load_image_async(index): with a pixmap, current_index becomes index and
\* _update_navigation runs; with a null pixmap nothing is changed.
load_image_async(v, index, isNull) ==
    IF ~isNull
    THEN update_navigation([v EXCEPT !.current_index = index,
                                     !.moved = @ \/ index # v.current_index])
    ELSE [v EXCEPT !.failed = TRUE]

\* show_previous
show_previous(v) ==
    IF v.current_index > 0 THEN load_image(v, v.current_index - 1) ELSE v

\* show_next
show_next(v) ==
    IF v.current_index < v.image_paths - 1 THEN load_image(v, v.current_index + 1) ELSE v

\* ImageViewerDialog.__init__(image_paths, start_index): _setup_ui ends with
\* _update_navigation, then the start image is set to load.
ImageViewerDialog(n, start_index) ==
    load_image(update_navigation([NoViewer EXCEPT !.open = TRUE, !.image_paths = n,
                                                  !.current_index = start_index]),
               start_index)

ViewerUnchanged ==
    UNCHANGED <<variant, store, imports, last, df_full, loadCache, opts, sel, q,
                shown, count_lbl, is_filtering, msg, dimension, pics, gallery_view,
                image_cache, sessions, search, db_path>>

\* A double click on a card with pictures (start index: the card's
\* current_image_index) or the "show pictures" action (start index 0), which
\* returns at once when no picture is found.
OpenViewer(n, start_index) ==
    /\ variant = "gallery"
    /\ ~viewer.open
    /\ viewer' = ImageViewerDialog(n, start_index)
    /\ ViewerUnchanged

\* A click on prev_btn, which is possible only while the button is enabled.
ClickPrevious ==
    /\ viewer.open /\ viewer.prev_btn
    /\ Len(viewer.timers) < MaxLoads
    /\ viewer' = show_previous(viewer)
    /\ ViewerUnchanged

\* A click on next_btn.
ClickNext ==
    /\ viewer.open /\ viewer.next_btn
    /\ Len(viewer.timers) < MaxLoads
    /\ viewer' = show_next(viewer)
    /\ ViewerUnchanged

\* keyPressEvent: Escape closes the dialog, Left and Right call
\* show_previous and show_next whatever the state of the buttons.
ViewerKeyPress(key) ==
    /\ viewer.open
    /\ key # "Escape" => Len(viewer.timers) < MaxLoads
    /\ viewer' = CASE key = "Escape" -> NoViewer
                   [] key = "Left"   -> show_previous(viewer)
                   [] key = "Right"  -> show_next(viewer)
    /\ ViewerUnchanged

\* resizeEvent: the current image is set to load again.
ViewerResize ==
    /\ viewer.open
    /\ Len(viewer.timers) < MaxLoads
    /\ viewer' = load_image(viewer, viewer.current_index)
    /\ ViewerUnchanged

\* The oldest pending callback runs; the file yields a pixmap or not.
ViewerTimer(isNull) ==
    /\ viewer.open
    /\ viewer.timers # <<>>
    /\ viewer' = load_image_async([viewer EXCEPT !.timers = Tail(@)],
                                  Head(viewer.timers), isNull)
    /\ ViewerUnchanged

NextViewer ==
    \/ \E n \in 1..MaxImages : \E start_index \in 0..(n - 1) : OpenViewer(n, start_index)
    \/ ClickPrevious
    \/ ClickNext
    \/ \E key \in {"Escape", "Left", "Right"} : ViewerKeyPress(key)
    \/ ViewerResize
    \/ \E isNull \in BOOLEAN : ViewerTimer(isNull)

SpecViewer == Init /\ [][NextViewer]_vars

(* C30: in an ImageViewerDialog opened with a non-empty list and a start   *)
(* index inside it, after any sequence of show_previous, show_next, key    *)
(* presses, resizes and loads (failed ones too), current_index is an index *)
(* of image_paths, the previous button is enabled exactly when             *)
(* current_index > 0 and the next button exactly when current_index is     *)
(* below the last index.                                                   *)
C30_ViewerNavigation ==
    viewer.open =>
        /\ 0 <= viewer.current_index
        /\ viewer.current_index < viewer.image_paths
        /\ viewer.prev_btn <=> (viewer.current_index > 0)
        /\ viewer.next_btn <=> (viewer.current_index < viewer.image_paths - 1)

\* A dialog on several pictures has moved to the last one, a load has
\* failed, and another load is pending.
C30_Witness ==
    /\ viewer.open
    /\ viewer.image_paths > 1
    /\ viewer.moved /\ viewer.failed
    /\ viewer.current_index = viewer.image_paths - 1
    /\ viewer.timers # <<>>

====
